---- MODULE Spec2Model ----
(***************************************************************************)
(* bounds_check_indices_cpu                                                *)
(* (fbgemm_gpu/codegen/embedding_bounds_check_host_cpu.cpp).               *)
(*                                                                         *)
(* The tensors are functions over 0..n-1, as the accessors index them.     *)
(* One call is a loop over the T*B (table, batch) units k = t*B + b; every *)
(* unit reads its two offsets (lines 40-41), checks or repairs the segment *)
(* (lines 42-73) and then checks its elements one by one (lines 75-100).   *)
(* A caller runs the operator on fresh copies of the same tensors once per *)
(* entry of `pending', so that the outcomes of different bounds-check      *)
(* modes and schedules on one input can be compared.                       *)
(***************************************************************************)
EXTENDS Integers, Sequences, FiniteSets, TLC

VARIABLES
    rows_per_table,  \* Tensor rows_per_table, 0..T-1 -> row count
    indices0,        \* the caller's indices tensor before a call
    offsets0,        \* the caller's offsets tensor before a call
    warning0,        \* the caller's warning tensor (element 0) before a call
    pending,         \* the calls the caller still makes
    mode,            \* bounds_check_mode of the running call
    sched,           \* "seq": the for loops of lines 37-39; "par": units interleaved
    status,          \* "idle" | "running" | "ok" | "failed"
    error,           \* the TORCH_CHECK that threw, "none" otherwise
    indices,         \* indices_acc
    offsets,         \* offsets_acc
    warning,         \* warning_acc[0]
    unit,            \* per unit k: pc and the locals indices_start, indices_end, l
    log,             \* the LOG(ERROR) records of the running call
    nViol,           \* violations met by the running call (history)
    firstViol,       \* the first of them (history)
    idxAccess,       \* positions of indices read or written by the running call
    offAccess,       \* positions of offsets read or written by the running call
    results          \* what the caller saw of every finished call

vars == <<rows_per_table, indices0, offsets0, warning0, pending, mode, sched,
          status, error, indices, offsets, warning, unit, log, nViol,
          firstViol, idxAccess, offAccess, results>>

----------------------------------------------------------------------------
(* Bounds of the explored inputs *)

NumIndices == 2

MaxRows == 2

StaleWarning == 1

Shapes == {<<1, 2>>, <<2, 1>>}

OffVals == {-1, 0, 1, NumIndices, NumIndices + 1}

IdxVals == {-2, -1, 0, MaxRows - 1, MaxRows}

RowVals == {0, MaxRows}

Modes == {"FATAL", "WARNING", "IGNORE"}

NoViol == [kind |-> "none"]

----------------------------------------------------------------------------
(* Helpers *)

Min(a, b) == IF a < b THEN a ELSE b

Max(a, b) == IF a > b THEN a ELSE b

Size(f) == Cardinality(DOMAIN f)

Tensors(n, S) == [0 .. n - 1 -> S]

\* line 28
T == Size(rows_per_table)

\* line 29
B == (Size(offsets0) - 1) \div T

Units == 0 .. T * B - 1

\* line 36
num_indices == Size(indices)

TableOf(k) == k \div B

BatchOf(k) == k % B

\* bug: the counter is zeroed in every mode
EntryWarningAlwaysZero(m, w) == 0

\* lines 23-26
EntryWarning(m, w) == IF m = "WARNING" THEN 0 ELSE w

\* lines 43-45: the first TORCH_CHECK that fails
FatalSegmentCheck(s, e, n) ==
    IF ~(s >= 0) THEN "indices_start >= 0"
    ELSE IF ~(s <= e) THEN "indices_start <= indices_end"
    ELSE IF ~(e <= n) THEN "indices_end <= num_indices"
    ELSE "none"

\* bug: a negative indices_start is not seen as a violation
SegmentOutOfBoundsNoNegative(s, e, n) == s > e \/ e > n

\* lines 47-48
SegmentOutOfBounds(s, e, n) == s < 0 \/ s > e \/ e > n

\* bug: the start is clamped to the last position, num_indices - 1
ClampStartOffByOne(s, n) == Max(0, Min(s, n - 1))

\* lines 57-58 and 66-67
ClampStart(s, n) == Max(0, Min(s, n))

\* bug: the end is not raised to the repaired start
ClampEndNoFloor(s, e, n) == Min(e, n)

\* bug: the end is not lowered to num_indices
ClampEndNoCeiling(s, e, n) == Max(s, e)

\* lines 59-61 and 68-70
ClampEnd(s, e, n) == Max(s, Min(e, n))

\* bug: the pruned-row test is missing
IsPrunedMissing(idx) == FALSE

\* line 78
IsPruned(idx) == idx = -1

\* bug: the upper TORCH_CHECK is missing
FatalIdxCheckNoUpper(idx, num_rows) == IF ~(idx >= 0) THEN "idx >= 0" ELSE "none"

\* lines 83-84: the first TORCH_CHECK that fails
FatalIdxCheck(idx, num_rows) ==
    IF ~(idx >= 0) THEN "idx >= 0"
    ELSE IF ~(idx < num_rows) THEN "idx < num_rows"
    ELSE "none"

\* bug: the last row is taken as out of range
IdxOutOfRangeOffByOne(idx, num_rows) == idx < 0 \/ idx >= num_rows - 1

\* lines 86 and 96
IdxOutOfRange(idx, num_rows) == idx < 0 \/ idx >= num_rows

\* lines 93 and 97
RepairedIdx(idx) == 0

\* bug: every violation is logged
FirstTransitionAlways(old) == old >= 0

\* lines 49 and 87: the value __sync_fetch_and_add returned
FirstTransition(old) == old = 0

\* line 77
ElemPos(s, l) == s + l

AllDone(u) == \A k \in DOMAIN u : u[k].pc = "done"

\* lines 37 and 39: the loops take the units in the order of k
Scheduled(k) ==
    /\ status = "running"
    /\ unit[k].pc # "done"
    /\ sched = "par" \/ \A j \in Units : j < k => unit[j].pc = "done"

Outcome(st, off, idx) == [status |-> st, offsets |-> off, indices |-> idx]

Recorded(st, off, idx) ==
    IF st \in {"ok", "failed"}
    THEN [results EXCEPT ![<<mode, sched>>] = Outcome(st, off, idx)]
    ELSE results

NoOutcome == [status |-> "none"]

Calls == Modes \X {"seq", "par"}

----------------------------------------------------------------------------
(* Initial states *)

InitWith(calls, offvals, idxvals) ==
    /\ \E sh \in Shapes :
          /\ rows_per_table \in Tensors(sh[1], RowVals)
          /\ offsets0 \in Tensors(sh[1] * sh[2] + 1, offvals)
    /\ indices0 \in Tensors(NumIndices, idxvals)
    /\ warning0 = StaleWarning
    /\ pending = calls
    /\ mode = "IGNORE"
    /\ sched = "seq"
    /\ status = "idle"
    /\ error = "none"
    /\ indices = indices0
    /\ offsets = offsets0
    /\ warning = warning0
    /\ unit = [k \in Units |-> [pc |-> "done", indices_start |-> 0,
                                indices_end |-> 0, l |-> 0]]
    /\ log = <<>>
    /\ nViol = 0
    /\ firstViol = NoViol
    /\ idxAccess = {}
    /\ offAccess = {}
    /\ results = [c \in Calls |-> NoOutcome]

Init ==
    InitWith(<<<<"IGNORE", "seq">>, <<"WARNING", "seq">>, <<"FATAL", "seq">>>>,
             OffVals, IdxVals)

InitPar ==
    InitWith(<<<<"IGNORE", "seq">>, <<"IGNORE", "par">>, <<"WARNING", "seq">>,
               <<"WARNING", "par">>>>, OffVals \ {-1}, IdxVals \ {-2, 0})

----------------------------------------------------------------------------
(* Actions *)

\* lines 17-36: the call is entered on copies of the caller's tensors
StartCall ==
    /\ status # "running"
    /\ pending # <<>>
    /\ mode' = Head(pending)[1]
    /\ sched' = Head(pending)[2]
    /\ pending' = Tail(pending)
    /\ indices' = indices0
    /\ offsets' = offsets0
    /\ warning' = EntryWarning(mode', warning0)
    /\ unit' = [k \in Units |-> [pc |-> "read", indices_start |-> 0,
                                 indices_end |-> 0, l |-> 0]]
    /\ status' = IF Units = {} THEN "ok" ELSE "running"
    /\ error' = "none"
    /\ log' = <<>>
    /\ nViol' = 0
    /\ firstViol' = NoViol
    /\ idxAccess' = {}
    /\ offAccess' = {}
    /\ results' = IF Units = {}
                  THEN [results EXCEPT ![<<mode', sched'>>] =
                           Outcome("ok", offsets', indices')]
                  ELSE results
    /\ UNCHANGED <<rows_per_table, indices0, offsets0, warning0>>

\* lines 40-41
ReadOffsets(k) ==
    /\ Scheduled(k)
    /\ unit[k].pc = "read"
    /\ unit' = [unit EXCEPT ![k].pc = "check",
                            ![k].indices_start = offsets[k],
                            ![k].indices_end = offsets[k + 1]]
    /\ offAccess' = offAccess \cup {k, k + 1}
    /\ UNCHANGED <<rows_per_table, indices0, offsets0, warning0, pending, mode,
                   sched, status, error, indices, offsets, warning, log, nViol,
                   firstViol, idxAccess, results>>

\* lines 42-75
SegmentCheck(k) ==
    /\ Scheduled(k)
    /\ unit[k].pc = "check"
    /\ LET s == unit[k].indices_start
           e == unit[k].indices_end
           n == num_indices
           failed == IF mode = "FATAL" THEN FatalSegmentCheck(s, e, n) ELSE "none"
           bad == mode = "WARNING" /\ SegmentOutOfBounds(s, e, n)
           repair == bad \/ mode = "IGNORE"
           s2 == IF repair THEN ClampStart(s, n) ELSE s
           e2 == IF repair THEN ClampEnd(s2, e, n) ELSE e
           rec == [kind |-> "segment", b |-> BatchOf(k), t |-> TableOf(k),
                   indices_start |-> s, indices_end |-> e, num_indices |-> n]
           L == e2 - s2
       IN  /\ error' = failed
           /\ warning' = IF bad THEN warning + 1 ELSE warning
           /\ log' = IF bad /\ FirstTransition(warning) THEN Append(log, rec) ELSE log
           /\ nViol' = IF bad THEN nViol + 1 ELSE nViol
           /\ firstViol' = IF bad /\ nViol = 0 THEN rec ELSE firstViol
           /\ offsets' = IF repair
                         THEN [offsets EXCEPT ![k] = s2, ![k + 1] = e2]
                         ELSE offsets
           /\ offAccess' = IF repair THEN offAccess \cup {k, k + 1} ELSE offAccess
           /\ unit' = IF failed # "none" THEN unit
                      ELSE [unit EXCEPT ![k].indices_start = s2,
                                        ![k].indices_end = e2,
                                        ![k].l = 0,
                                        ![k].pc = IF 0 < L THEN "scan" ELSE "done"]
           /\ status' = IF failed # "none" THEN "failed"
                        ELSE IF AllDone(unit') THEN "ok" ELSE "running"
           /\ results' = Recorded(status', offsets', indices)
    /\ UNCHANGED <<rows_per_table, indices0, offsets0, warning0, pending, mode,
                   sched, indices, idxAccess>>

\* lines 76-100, one iteration of the loop over l
ElementCheck(k) ==
    /\ Scheduled(k)
    /\ unit[k].pc = "scan"
    /\ LET s == unit[k].indices_start
           l == unit[k].l
           L == unit[k].indices_end - s
           p == ElemPos(s, l)
           num_rows == rows_per_table[TableOf(k)]
       IN  \E idx \in (IF p \in DOMAIN indices THEN {indices[p]} ELSE IdxVals) :
           LET failed == IF mode = "FATAL" /\ ~IsPruned(idx)
                         THEN FatalIdxCheck(idx, num_rows) ELSE "none"
               bad == /\ mode \in {"WARNING", "IGNORE"}
                      /\ ~IsPruned(idx)
                      /\ IdxOutOfRange(idx, num_rows)
               counted == bad /\ mode = "WARNING"
               rec == [kind |-> "element", b |-> BatchOf(k), t |-> TableOf(k),
                       l |-> l, idx |-> idx, num_rows |-> num_rows]
           IN  /\ error' = failed
               /\ warning' = IF counted THEN warning + 1 ELSE warning
               /\ log' = IF counted /\ FirstTransition(warning)
                         THEN Append(log, rec) ELSE log
               /\ nViol' = IF counted THEN nViol + 1 ELSE nViol
               /\ firstViol' = IF counted /\ nViol = 0 THEN rec ELSE firstViol
               /\ indices' = IF bad /\ p \in DOMAIN indices
                             THEN [indices EXCEPT ![p] = RepairedIdx(idx)]
                             ELSE indices
               /\ idxAccess' = idxAccess \cup {p}
               /\ unit' = IF failed # "none" THEN unit
                          ELSE [unit EXCEPT ![k].l = l + 1,
                                            ![k].pc = IF l + 1 < L THEN "scan"
                                                      ELSE "done"]
               /\ status' = IF failed # "none" THEN "failed"
                            ELSE IF AllDone(unit') THEN "ok" ELSE "running"
               /\ results' = Recorded(status', offsets, indices')
    /\ UNCHANGED <<rows_per_table, indices0, offsets0, warning0, pending, mode,
                   sched, offsets, offAccess>>

Next ==
    \/ StartCall
    \/ \E k \in Units : ReadOffsets(k)
    \/ \E k \in Units : SegmentCheck(k)
    \/ \E k \in Units : ElementCheck(k)

Spec == Init /\ [][Next]_vars

ParSpec == InitPar /\ [][Next]_vars

----------------------------------------------------------------------------
(* The safety invariant of the packed representation *)

SegsValid(off, n) ==
    \A k \in Units : 0 <= off[k] /\ off[k] <= off[k + 1] /\ off[k + 1] <= n

ElemsValid(off, idx) ==
    \A k \in Units : \A i \in DOMAIN idx :
        (off[k] <= i /\ i < off[k + 1]) =>
            (idx[i] = -1 \/ (0 <= idx[i] /\ idx[i] < rows_per_table[TableOf(k)]))

InputValid == SegsValid(offsets0, NumIndices) /\ ElemsValid(offsets0, indices0)

Returned == status = "ok"

Repairing == mode \in {"WARNING", "IGNORE"}

Finished(m, s) == results[<<m, s>>].status # "none"

----------------------------------------------------------------------------
(* Claims *)

\* C1: when a WARNING or IGNORE call has returned, every consecutive pair of
\* offsets satisfies 0 <= Offsets[k] <= Offsets[k+1] <= len(Indices), whatever
\* the offsets were at entry.
C1_OffsetsRepaired ==
    (Returned /\ Repairing) => SegsValid(offsets, num_indices)

C1_Witness ==
    /\ Returned
    /\ mode = "WARNING"
    /\ offsets0[0] > NumIndices
    /\ offsets0[1] < 0
    /\ offsets0[2] < offsets0[0]

\* C2: when a WARNING or IGNORE call has returned, every element inside a final
\* segment of table t is the sentinel -1 or a row id in [0, RowCounts[t]), for
\* every RowCounts[t] >= 0, 0 included.
C2_IndicesInRange ==
    (Returned /\ Repairing) => ElemsValid(offsets, indices)

\* C3: a FATAL call on an input that violates the safety invariant ends in the
\* failure outcome, never in success, and repairs no value.
C3_FatalStrict ==
    (mode = "FATAL" /\ status # "idle" /\ ~InputValid) =>
        /\ status # "ok"
        /\ offsets = offsets0
        /\ indices = indices0
        /\ (status = "failed" => error # "none")

C3_Witness ==
    /\ mode = "FATAL"
    /\ status = "failed"
    /\ error = "idx < num_rows"
    /\ unit[0].pc = "done"
    /\ SegsValid(offsets0, NumIndices)

\* C4: on an input that satisfies the safety invariant the call never fails in
\* any mode, Offsets and Indices keep their entry values, no diagnostic is
\* emitted, and under WARNING the counter is 0 on exit.
C4_NoOpOnValid ==
    (InputValid /\ status # "idle") =>
        /\ status # "failed"
        /\ offsets = offsets0
        /\ indices = indices0
        /\ log = <<>>
        /\ (mode = "WARNING" => warning = 0)

C4_Witness ==
    /\ InputValid
    /\ Returned
    /\ mode = "WARNING"
    /\ idxAccess = DOMAIN indices
    /\ \E p \in DOMAIN indices : indices0[p] > 0
    /\ \E p \in DOMAIN indices : indices0[p] = -1

\* C5: a WARNING call that has met N > 0 violations (of either kind, counted
\* through the one counter) has emitted exactly one diagnostic, the record of the
\* first violation met, and its counter is nonzero; a call that met none emitted
\* nothing. This holds for the loop order and for every interleaving of the units.
C5_SingleDiagnostic ==
    (mode = "WARNING" /\ status \in {"running", "ok"}) =>
        IF nViol > 0
        THEN log = <<firstViol>> /\ warning # 0
        ELSE log = <<>>

C5_Witness ==
    /\ Returned
    /\ mode = "WARNING"
    /\ sched = "par"
    /\ nViol >= 3
    /\ firstViol.kind = "element"
    /\ firstViol.t = 1
    /\ offsets # offsets0

\* C6: an element that holds the sentinel -1 at entry holds -1 at every later
\* point of every call, and the check of a -1 element neither fails the call nor
\* increments the counter nor emits a diagnostic.
C6_SentinelTransparent ==
    /\ [](\A p \in DOMAIN indices0 : indices0[p] = -1 => indices[p] = -1)
    /\ [][\A k \in Units :
            (/\ unit[k].pc = "scan"
             /\ ElemPos(unit[k].indices_start, unit[k].l) \in DOMAIN indices
             /\ indices[ElemPos(unit[k].indices_start, unit[k].l)] = -1
             /\ ElementCheck(k))
            => /\ status' # "failed"
               /\ warning' = warning
               /\ log' = log
               /\ nViol' = nViol
               /\ indices' = indices]_vars

C6_Witness ==
    /\ Returned
    /\ mode = "FATAL"
    /\ idxAccess = DOMAIN indices
    /\ \A t \in DOMAIN rows_per_table : rows_per_table[t] = 0

C8_IgnoreSameAsWarning ==
    /\ (Finished("WARNING", "seq") /\ Finished("IGNORE", "seq")) =>
          results[<<"WARNING", "seq">>] = results[<<"IGNORE", "seq">>]
    /\ (mode = "IGNORE" /\ status # "idle") =>
          (warning = warning0 /\ log = <<>>)
    /\ (mode = "WARNING" /\ status # "idle") => warning = nViol

C8_Witness ==
    /\ Finished("WARNING", "seq")
    /\ Finished("IGNORE", "seq")
    /\ results[<<"WARNING", "seq">>].offsets # offsets0
    /\ results[<<"WARNING", "seq">>].indices # indices0
    /\ offsets0[0] < 0

\* C9: a FATAL call writes nothing: at every point of it, at its return and at
\* its abort, Offsets, Indices and the counter hold their entry values.
C9_FatalWritesNothing ==
    (mode = "FATAL" /\ status # "idle") =>
        /\ offsets = offsets0
        /\ indices = indices0
        /\ warning = warning0
        /\ log = <<>>

C9_Witness ==
    /\ mode = "FATAL"
    /\ status = "failed"
    /\ error = "idx >= 0"
    /\ unit[0].pc = "done"
    /\ warning0 # 0

\* C10: every position of Indices a call reads or writes is in
\* [0, len(Indices)), every position of Offsets in [0, T*B], and a unit checks
\* elements only of a segment with 0 <= start <= end <= len(Indices), at
\* positions inside it.
C10_AccessInBounds ==
    /\ idxAccess \subseteq DOMAIN indices
    /\ offAccess \subseteq 0 .. T * B
    /\ \A k \in Units :
          unit[k].pc = "scan" =>
              /\ 0 <= unit[k].indices_start
              /\ ElemPos(unit[k].indices_start, unit[k].l) < unit[k].indices_end
              /\ unit[k].indices_end <= num_indices

C10_Witness ==
    /\ Returned
    /\ mode = "IGNORE"
    /\ offsets0[0] < 0
    /\ offsets0[1] > NumIndices
    /\ idxAccess = DOMAIN indices
    /\ offAccess = 0 .. T * B

====
